---- MODULE Spec2Model ----
(***************************************************************************)
(* Rancher Auto Certs (app/main.py): one reconciliation pass               *)
(* (single_run, load_config, check_certs, make_cert per item) and daemon *)
(* loop around it.                                                         *)
(*                                                                         *)
(* Strings that the program trims or compares (certificate names, domain   *)
(* names) are sequences of characters.  Timestamps are whole seconds       *)
(* counted from the pass's datetime.now().  The external collaborators     *)
(* (Rancher, openssl, acme_tiny, the file system) answer                   *)
(* nondeterministically: each call either succeeds or raises.              *)
(***************************************************************************)
EXTENDS Integers, Sequences, FiniteSets, TLC

\* ------------------------------------------------------------------ bounds
MaxCerts == 2       \* certificates declared in config.yml
MaxObserved == 1    \* certificates returned by GET /certificates

\* ------------------------------------------------------- program constants
RenewBelowDays == 30            \* "if remaining_days < 30"
SecondsPerDay == 86400          \* timedelta.days counts whole days
SleepSeconds == 24 * 60 * 60    \* time.sleep(24 * 60 * 60)
NoLink == 0                     \* link=None; observed links are 1, 2, ...
NoIO == 0                       \* no private key / certificate held yet

\* ------------------------------------------------------------------ strings
\* Code points of the characters used, for Python's string ordering.
CharCode == [c \in {" ", "a", "b", "c", "o", "s"} |->
               CASE c = " " -> 32 [] c = "a" -> 97 [] c = "b" -> 98
                 [] c = "c" -> 99 [] c = "o" -> 111 [] c = "s" -> 115]

RECURSIVE LStrip(_)
LStrip(s) == IF s # <<>> /\ Head(s) = " " THEN LStrip(Tail(s)) ELSE s

RECURSIVE RStrip(_)
RStrip(s) ==
  IF s # <<>> /\ s[Len(s)] = " " THEN RStrip(SubSeq(s, 1, Len(s) - 1)) ELSE s

\* str.strip()
Strip(s) == RStrip(LStrip(s))

\* [x.strip() for x in domains]
StripAll(ds) == [i \in DOMAIN ds |-> Strip(ds[i])]

\* Python's < on two str values (lexicographic by code point).
RECURSIVE StrLess(_, _)
StrLess(s, t) ==
  IF t = <<>> THEN FALSE
  ELSE IF s = <<>> THEN TRUE
  ELSE IF Head(s) # Head(t) THEN CharCode[Head(s)] < CharCode[Head(t)]
  ELSE StrLess(Tail(s), Tail(t))

\* Python's < on two lists of str.
RECURSIVE ListLess(_, _)
ListLess(a, b) ==
  IF b = <<>> THEN FALSE
  ELSE IF a = <<>> THEN TRUE
  ELSE IF Head(a) # Head(b) THEN StrLess(Head(a), Head(b))
  ELSE ListLess(Tail(a), Tail(b))

\* ------------------------------------------------------------------- inputs
\* the entries config["certs"] may hold, as written in config.yml: names and
\* domains with surrounding blanks, one, two or no domains
DesiredCerts ==
  { [name |-> <<" ", "s">>, domains |-> << <<"a">> >>],
    [name |-> <<" ", "s">>, domains |-> << <<"a">>, <<" ", "b">> >>],
    [name |-> <<"o">>, domains |-> << <<"a">> >>],
    [name |-> <<"o">>, domains |-> <<>>] }

\* which of "ca" / "ca_directory" config.yml declares
CaKeys == SUBSET {"ca", "ca_directory"}

ObservedNames == { <<"s", " ">>, <<"o">> }
ObservedSANs == { << <<"a">> >>, << <<"b">>, <<"a">>, <<"c">> >> }
\* expiresAt: a timestamp in the expected format (seconds from now), or text
\* that strptime rejects
ExpiresAtValues ==
  { [fmt |-> "ok", secs |-> 0 - 1],
    [fmt |-> "ok", secs |-> RenewBelowDays * SecondsPerDay - 1],
    [fmt |-> "ok", secs |-> RenewBelowDays * SecondsPerDay],
    [fmt |-> "bad", secs |-> 0] }
ObservedProtos ==
  [name : ObservedNames, subjectAlternativeNames : ObservedSANs,
   expiresAt : ExpiresAtValues]

SeqsUpTo(S, n) == UNION { [1..k -> S] : k \in 0..n }

\* r.json()["data"]: the i-th certificate has links.self = i
Listings ==
  { [i \in DOMAIN l |->
       [name |-> l[i].name,
        subjectAlternativeNames |-> l[i].subjectAlternativeNames,
        expiresAt |-> l[i].expiresAt,
        link |-> i]] : l \in SeqsUpTo(ObservedProtos, MaxObserved) }

Configs ==
  [keys : CaKeys, certs : SeqsUpTo(DesiredCerts, MaxCerts)]


\* ------------------------------------------------------------- load_config
\* "Strip cert names and domains"
StripCerts(certs) ==
  [i \in DOMAIN certs |->
     [name |-> Strip(certs[i].name), domains |-> StripAll(certs[i].domains)]]

\* no validation
ConfigNeverRejected(cfg) == FALSE

\* the validation of load_config: both keys present is an error
ConfigRejected(cfg) == "ca" \in cfg.keys /\ "ca_directory" \in cfg.keys

\* ---------------------------------------------------------------- reconciler
now == 0    \* datetime.datetime.now(): the origin of the pass's timestamps

\* sublst must be the beginning of lst, in order
contains_sublist_prefix(lst, sublst) ==
  /\ Len(sublst) <= Len(lst)
  /\ \A i \in DOMAIN sublst : lst[i] = sublst[i]

contains_sublist(lst, sublst) ==
  \A i \in DOMAIN sublst : \E j \in DOMAIN lst : lst[j] = sublst[i]

\* "name in rancher_certs_by_name"
InRancher(rcs, name) == \E i \in DOMAIN rcs : Strip(rcs[i].name) = name

\* rancher_certs_by_name[name]: a later certificate of the same trimmed name
\* overwrites an earlier one
rancher_certs_by_name(rcs, name) ==
  LET i == CHOOSE k \in DOMAIN rcs :
             /\ Strip(rcs[k].name) = name
             /\ \A m \in DOMAIN rcs : m > k => Strip(rcs[m].name) # name
  IN rcs[i]

\* whole days rounded toward zero
remaining_days_truncated(expiresAt) ==
  LET diff == expiresAt.secs - now
  IN IF diff >= 0 THEN diff \div SecondsPerDay
     ELSE 0 - ((0 - diff) \div SecondsPerDay)

\* (cert_exp - now).days
remaining_days(expiresAt) == (expiresAt.secs - now) \div SecondsPerDay

Item(rd, name, domains, link) ==
  [remaining_days |-> rd, name |-> name, domains |-> domains, link |-> link]

\* line 164: the certificate does not exist in Rancher
AbsentItem(name, domains) == Item(0, name, domains, NoLink)

\* the observed certificate's link is dropped
GapItemNoLink(rancher_cert, name, domains) == Item(0, name, domains, NoLink)

\* line 176: the certificate is missing domains
GapItem(rancher_cert, name, domains) == Item(0, name, domains, rancher_cert.link)

\* line 173: the certificate expires soon
ExpiringItem(rancher_cert, name, domains) ==
  Item(remaining_days(rancher_cert.expiresAt), name, domains, rancher_cert.link)

\* One iteration of "for cert_config in config['certs']": the tuples it
\* appends to to_do (none or one), or the ValueError of strptime.
Classify(rcs, cert_config) ==
  LET name == cert_config.name
      domains == cert_config.domains
  IN IF ~InRancher(rcs, name)
     THEN [raises |-> FALSE, items |-> <<AbsentItem(name, domains)>>]
     ELSE LET rancher_cert == rancher_certs_by_name(rcs, name)
          IN IF contains_sublist(rancher_cert.subjectAlternativeNames, domains)
             THEN IF rancher_cert.expiresAt.fmt # "ok"
                  THEN [raises |-> TRUE, items |-> <<>>]
                  ELSE IF remaining_days(rancher_cert.expiresAt) < RenewBelowDays
                       THEN [raises |-> FALSE,
                             items |-> <<ExpiringItem(rancher_cert, name,
                                                      domains)>>]
                       ELSE [raises |-> FALSE, items |-> <<>>]
             ELSE [raises |-> FALSE,
                   items |-> <<GapItem(rancher_cert, name, domains)>>]

\* a certificate whose expiry cannot be parsed is skipped
RECURSIVE CheckLoopSkipsUnparsed(_, _)
CheckLoopSkipsUnparsed(rcs, certs) ==
  IF certs = <<>> THEN [raises |-> FALSE, items |-> <<>>]
  ELSE [raises |-> FALSE,
        items |-> Classify(rcs, Head(certs)).items
                    \o CheckLoopSkipsUnparsed(rcs, Tail(certs)).items]

\* The whole classification loop over config["certs"], in config order.
RECURSIVE CheckLoop(_, _)
CheckLoop(rcs, certs) ==
  IF certs = <<>> THEN [raises |-> FALSE, items |-> <<>>]
  ELSE LET c == Classify(rcs, Head(certs))
           rest == CheckLoop(rcs, Tail(certs))
       IN IF c.raises \/ rest.raises
          THEN [raises |-> TRUE, items |-> <<>>]
          ELSE [raises |-> FALSE, items |-> c.items \o rest.items]

\* only the urgency is compared (a sort with key = urgency)
TupleLessByUrgency(x, y) == x.remaining_days < y.remaining_days

\* Python's < on two to_do tuples (remaining_days, name, domains, link).  The
\* links are compared only between tuples of equal name, which carry the
\* link of the same observed certificate.
TupleLess(x, y) ==
  IF x.remaining_days # y.remaining_days THEN x.remaining_days < y.remaining_days
  ELSE IF x.name # y.name THEN StrLess(x.name, y.name)
  ELSE IF x.domains # y.domains THEN ListLess(x.domains, y.domains)
  ELSE x.link < y.link

RECURSIVE InsertSorted(_, _)
InsertSorted(x, s) ==
  IF s = <<>> THEN <<x>>
  ELSE IF TupleLess(x, Head(s)) THEN <<x>> \o s
  ELSE <<Head(s)>> \o InsertSorted(x, Tail(s))

\* the queue left in config order
SortOmitted(s) == s

\* to_do.sort(reverse=True)
RECURSIVE SortReversed(_)
SortReversed(s) ==
  IF s = <<>> THEN <<>>
  ELSE LET rest == SortReversed(SubSeq(s, 1, Len(s) - 1))
           x == s[Len(s)]
           k == Cardinality({ n \in DOMAIN rest : TupleLess(x, rest[n]) })
       IN SubSeq(rest, 1, k) \o <<x>> \o SubSeq(rest, k + 1, Len(rest))

\* to_do.sort(): ascending, stable
RECURSIVE Sort(_)
Sort(s) ==
  IF s = <<>> THEN <<>>
  ELSE InsertSorted(s[Len(s)], Sort(SubSeq(s, 1, Len(s) - 1)))


\* -------------------------------------------------------------------- state
VARIABLES
  mode,           \* "single" or "daemon" ("--daemon" in sys.argv)
  pc,             \* where the program is
  config,         \* load_config: the parsed config.yml, then the value returned
  rancher_certs,  \* check_certs: the listing, until classification is done
  to_do,          \* check_certs: the work queue
  idx,            \* how many items of to_do the for loop has taken
  tmp,            \* transient files of the current attempt that exist in /tmp
  private_key,    \* make_cert: the key read back (the attempt that made it)
  cert,           \* make_cert: the certificate get_crt returned
  err,            \* the exception being propagated, if any
  nb_certs,       \* the value single_run returned
  calls,          \* this pass's calls of Rancher, openssl and acme_tiny
  started,        \* this pass's make_cert invocations, in order
  ended,          \* how many of them have returned or raised
  statsd,         \* what this pass sent to datadog.statsd
  slept           \* seconds slept since the last pass ended

vars == <<mode, pc, config, rancher_certs, to_do, idx, tmp, private_key, cert,
          err, nb_certs, calls, started, ended, statsd, slept>>

NoError == [type |-> "", msg |-> ""]
NoConfig == [keys |-> {}, certs |-> <<>>]

Call(op, item, ok) ==
  [op |-> op, item |-> item, ok |-> ok, name |-> <<>>, link |-> NoLink,
   key |-> NoIO, cert |-> NoIO]

\* every save is sent as an update
rancher_save_cert_put(item, name, key, crt, link, ok) ==
  [op |-> "PUT", item |-> item, ok |-> ok, name |-> <<>>, link |-> link,
   key |-> key, cert |-> crt]

\* rancher_save_cert: the request it sends
rancher_save_cert(item, name, key, crt, link, ok) ==
  IF link = NoLink
  THEN [op |-> "POST", item |-> item, ok |-> ok, name |-> name, link |-> NoLink,
        key |-> key, cert |-> crt]
  ELSE [op |-> "PUT", item |-> item, ok |-> ok, name |-> <<>>, link |-> link,
        key |-> key, cert |-> crt]

Init ==
  /\ mode \in {"single", "daemon"}
  /\ pc = "single_run"
  /\ config = NoConfig
  /\ rancher_certs = <<>>
  /\ to_do = <<>>
  /\ idx = 0
  /\ tmp = {}
  /\ private_key = NoIO
  /\ cert = NoIO
  /\ err = NoError
  /\ nb_certs = 0
  /\ calls = <<>>
  /\ started = <<>>
  /\ ended = 0
  /\ statsd = <<>>
  /\ slept = 0

\* an exception leaves single_run
Raise(type, msg) ==
  /\ pc' = "raised"
  /\ err' = [type |-> type, msg |-> msg]

\* the exception is swallowed per certificate and the loop goes on
RaiseIsolated(type, msg) ==
  /\ pc' = "for_to_do"
  /\ err' = [type |-> type, msg |-> msg]
  /\ ended' = ended + 1

\* an exception leaves make_cert (and, uncaught in check_certs, single_run)
RaiseInMakeCert(type, msg) ==
  /\ Raise(type, msg)
  /\ ended' = ended + 1

\* ------------------------------------------------------------ single_run
\* load_config: config.yml cannot be read or parsed
LoadConfigUnreadable ==
  /\ pc = "single_run"
  /\ Raise("YAMLError", "config.yml")
  /\ slept' = 0
  /\ UNCHANGED <<mode, config, rancher_certs, to_do, idx, tmp, private_key,
                 cert, nb_certs, calls, started, ended, statsd>>

\* load_config: validate, then strip names and domains
LoadConfig ==
  /\ pc = "single_run"
  /\ \E cfg \in Configs :
       IF ConfigRejected(cfg)
       THEN /\ Raise("Exception", "either ca_directory or ca but not both")
            /\ config' = cfg
       ELSE /\ config' = [keys |-> cfg.keys, certs |-> StripCerts(cfg.certs)]
            /\ pc' = "check_certs"
            /\ UNCHANGED err
  /\ slept' = 0
  /\ UNCHANGED <<mode, rancher_certs, to_do, idx, tmp, private_key, cert,
                 nb_certs, calls, started, ended, statsd>>

\* check_certs up to and including to_do.sort()
CheckCerts ==
  /\ pc = "check_certs"
  /\ \/ \* rancher_get_certs: status_code != 200
        /\ calls' = Append(calls, Call("GET", 0, FALSE))
        /\ Raise("Exception", "Rancher returned non-200 code")
        /\ UNCHANGED <<rancher_certs, to_do>>
     \/ \E listing \in Listings :
          /\ calls' = Append(calls, Call("GET", 0, TRUE))
          /\ rancher_certs' = listing
          /\ LET r == CheckLoop(listing, config.certs)
             IN IF r.raises
                THEN /\ Raise("ValueError", "time data does not match format")
                     /\ UNCHANGED to_do
                ELSE /\ to_do' = Sort(r.items)
                     /\ pc' = "for_to_do"
                     /\ UNCHANGED err
  /\ idx' = 0
  /\ UNCHANGED <<mode, config, tmp, private_key, cert, nb_certs, started,
                 ended, statsd, slept>>

\* "for (_, name, domains, link) in to_do": the next item, make_cert is called
ForToDo ==
  /\ pc = "for_to_do"
  /\ idx < Len(to_do)
  /\ idx' = idx + 1
  /\ started' = Append(started, to_do[idx + 1])
  /\ pc' = "make_cert"
  /\ rancher_certs' = <<>>
  /\ UNCHANGED <<mode, config, to_do, tmp, private_key, cert, err, nb_certs,
                 calls, ended, statsd, slept>>

\* the number of certificates declared in the config is returned
ReturnDeclaredCount ==
  /\ pc = "for_to_do"
  /\ idx = Len(to_do)
  /\ nb_certs' = Len(config.certs)
  /\ pc' = "returned"
  /\ rancher_certs' = <<>>
  /\ UNCHANGED <<mode, config, to_do, idx, tmp, private_key, cert, err, calls,
                 started, ended, statsd, slept>>

\* the loop is exhausted: check_certs returns len(to_do), single_run returns it
ReturnCount ==
  /\ pc = "for_to_do"
  /\ idx = Len(to_do)
  /\ nb_certs' = Len(to_do)
  /\ pc' = "returned"
  /\ rancher_certs' = <<>>
  /\ UNCHANGED <<mode, config, to_do, idx, tmp, private_key, cert, err, calls,
                 started, ended, statsd, slept>>


\* -------------------------------------------------------------- make_cert
\* the domain list is not checked
MakeCertUnchecked ==
  /\ pc = "make_cert"
  /\ pc' = "genrsa"
  /\ tmp' = {}
  /\ private_key' = NoIO
  /\ cert' = NoIO
  /\ UNCHANGED <<mode, config, rancher_certs, to_do, idx, err, ended, nb_certs,
                 calls, started, statsd, slept>>

\* lines 60-66: the domain check, then fresh names for the transient files
MakeCert ==
  /\ pc = "make_cert"
  /\ IF Len(to_do[idx].domains) < 1
     THEN /\ RaiseInMakeCert("Exception", "No domains for certificate")
          /\ UNCHANGED <<tmp, private_key, cert>>
     ELSE /\ pc' = "genrsa"
          /\ tmp' = {}
          /\ private_key' = NoIO
          /\ cert' = NoIO
          /\ UNCHANGED <<err, ended>>
  /\ UNCHANGED <<mode, config, rancher_certs, to_do, idx, nb_certs, calls,
                 started, statsd, slept>>

\* lines 68-72: openssl genrsa -out private_key_file, then read it back.  A
\* failing openssl is taken to leave no output file behind.
GenKey ==
  /\ pc = "genrsa"
  /\ \/ /\ calls' = Append(calls, Call("genrsa", idx, TRUE))
        /\ tmp' = tmp \cup {"private_key_file"}
        /\ private_key' = idx
        /\ pc' = "req"
        /\ UNCHANGED <<err, ended>>
     \/ /\ calls' = Append(calls, Call("genrsa", idx, FALSE))
        /\ RaiseInMakeCert("IOError", "OpenSSL Error")
        /\ UNCHANGED <<tmp, private_key>>
  /\ UNCHANGED <<mode, config, rancher_certs, to_do, idx, cert, nb_certs,
                 started, statsd, slept>>

\* lines 74-87: openssl req, for one domain directly, for several through a
\* SAN config file that is written before and removed after the call
GenCsr ==
  /\ pc = "req"
  /\ LET single == Len(to_do[idx].domains) = 1
         cnf == IF single THEN {} ELSE {"csr_config_file"}
     IN \/ /\ calls' = Append(calls, Call("req", idx, TRUE))
           /\ tmp' = tmp \cup {"csr_file"}
           /\ pc' = "rm_key"
           /\ UNCHANGED <<err, ended>>
        \/ /\ calls' = Append(calls, Call("req", idx, FALSE))
           /\ tmp' = tmp \cup cnf
           /\ RaiseInMakeCert("IOError", "OpenSSL Error")
        \/ \* open("/etc/ssl/openssl.cnf") fails
           /\ ~single
           /\ RaiseInMakeCert("FileNotFoundError", "/etc/ssl/openssl.cnf")
           /\ UNCHANGED <<calls, tmp>>
  /\ UNCHANGED <<mode, config, rancher_certs, to_do, idx, private_key, cert,
                 nb_certs, started, statsd, slept>>

\* the private key file is not removed before signing
RemoveKeySkipped ==
  /\ pc = "rm_key"
  /\ pc' = "sign"
  /\ UNCHANGED <<mode, config, rancher_certs, to_do, idx, tmp, private_key, cert,
                 err, nb_certs, calls, started, ended, statsd, slept>>

\* lines 89-90: os.remove(private_key_file)
RemoveKey ==
  /\ pc = "rm_key"
  /\ tmp' = tmp \ {"private_key_file"}
  /\ pc' = "sign"
  /\ UNCHANGED <<mode, config, rancher_certs, to_do, idx, private_key, cert,
                 err, nb_certs, calls, started, ended, statsd, slept>>

\* a failure of get_crt is swallowed and make_cert goes on
SignFailureIgnored ==
  /\ pc = "sign"
  /\ \E ok \in BOOLEAN :
       /\ calls' = Append(calls, Call("get_crt", idx, ok))
       /\ cert' = IF ok THEN idx ELSE cert
       /\ pc' = "rm_csr"
  /\ UNCHANGED <<mode, config, rancher_certs, to_do, idx, tmp, private_key,
                 err, nb_certs, started, ended, statsd, slept>>

\* lines 92-98: acme_tiny.get_crt with CA or directory_url
Sign ==
  /\ pc = "sign"
  /\ IF "ca" \notin config.keys /\ "ca_directory" \notin config.keys
     THEN /\ RaiseInMakeCert("KeyError", "ca_directory")
          /\ UNCHANGED <<calls, cert>>
     ELSE \/ /\ calls' = Append(calls, Call("get_crt", idx, TRUE))
             /\ cert' = idx
             /\ pc' = "rm_csr"
             /\ UNCHANGED <<err, ended>>
          \/ /\ calls' = Append(calls, Call("get_crt", idx, FALSE))
             /\ RaiseInMakeCert("ValueError", "acme_tiny")
             /\ UNCHANGED cert
  /\ UNCHANGED <<mode, config, rancher_certs, to_do, idx, tmp, private_key,
                 nb_certs, started, statsd, slept>>

\* lines 100-101: os.remove(csr_file)
RemoveCsr ==
  /\ pc = "rm_csr"
  /\ tmp' = tmp \ {"csr_file"}
  /\ pc' = "save"
  /\ UNCHANGED <<mode, config, rancher_certs, to_do, idx, private_key, cert,
                 err, nb_certs, calls, started, ended, statsd, slept>>

\* the store is listed again after every write
SaveThenRelist ==
  /\ pc = "save"
  /\ \E ok \in BOOLEAN :
       /\ calls' = calls \o <<rancher_save_cert(idx, to_do[idx].name, private_key,
                                                 cert, to_do[idx].link, ok),
                               Call("GET", 0, TRUE)>>
       /\ IF ok
          THEN /\ pc' = "for_to_do"
               /\ ended' = ended + 1
               /\ UNCHANGED err
          ELSE RaiseInMakeCert("Exception", "Rancher returned non-200 code")
  /\ UNCHANGED <<mode, config, rancher_certs, to_do, idx, tmp, private_key,
                 cert, nb_certs, started, statsd, slept>>

\* lines 105-106: rancher_save_cert(name, private_key, cert, link)
Save ==
  /\ pc = "save"
  /\ \E ok \in BOOLEAN :
       /\ calls' = Append(calls, rancher_save_cert(idx, to_do[idx].name,
                                   private_key, cert, to_do[idx].link, ok))
       /\ IF ok
          THEN /\ pc' = "for_to_do"
               /\ ended' = ended + 1
               /\ UNCHANGED err
          ELSE RaiseInMakeCert("Exception", "Rancher returned non-200 code")
  /\ UNCHANGED <<mode, config, rancher_certs, to_do, idx, tmp, private_key,
                 cert, nb_certs, started, statsd, slept>>

\* ------------------------------------------------------------ main, daemon
StatsdEvent(alert_type, count, e) ==
  [call |-> "event", alert_type |-> alert_type, count |-> count, error |-> e,
   status |-> ""]
StatsdCheck(status) ==
  [call |-> "service_check", alert_type |-> "", count |-> 0, error |-> NoError,
   status |-> status]

\* the success event without the service check
ReportSuccessEventOnly ==
  /\ mode = "daemon"
  /\ pc = "returned"
  /\ statsd' = statsd \o <<StatsdEvent("success", nb_certs, NoError)>>
  /\ pc' = "sleep"
  /\ UNCHANGED <<mode, config, rancher_certs, to_do, idx, tmp, private_key,
                 cert, err, nb_certs, calls, started, ended, slept>>

\* daemon, lines 229-234
ReportSuccess ==
  /\ mode = "daemon"
  /\ pc = "returned"
  /\ statsd' = statsd \o <<StatsdEvent("success", nb_certs, NoError),
                            StatsdCheck("OK")>>
  /\ pc' = "sleep"
  /\ UNCHANGED <<mode, config, rancher_certs, to_do, idx, tmp, private_key,
                 cert, err, nb_certs, calls, started, ended, slept>>

\* the exception is not caught: it leaves daemon() and the process ends
ReportErrorUncaught ==
  /\ mode = "daemon"
  /\ pc = "raised"
  /\ pc' = "exit"
  /\ UNCHANGED <<mode, config, rancher_certs, to_do, idx, tmp, private_key,
                 cert, err, nb_certs, calls, started, ended, statsd, slept>>

\* daemon, lines 235-242
ReportError ==
  /\ mode = "daemon"
  /\ pc = "raised"
  /\ statsd' = statsd \o <<StatsdEvent("error", 0, err), StatsdCheck("CRITICAL")>>
  /\ pc' = "sleep"
  /\ UNCHANGED <<mode, config, rancher_certs, to_do, idx, tmp, private_key,
                 cert, err, nb_certs, calls, started, ended, slept>>

\* daemon, line 243, and the next iteration of "while True": the locals of
\* the pass that ended are gone
Sleep ==
  /\ pc = "sleep"
  /\ slept' = slept + SleepSeconds
  /\ pc' = "single_run"
  /\ config' = NoConfig
  /\ rancher_certs' = <<>>
  /\ to_do' = <<>>
  /\ idx' = 0
  /\ tmp' = {}
  /\ private_key' = NoIO
  /\ cert' = NoIO
  /\ err' = NoError
  /\ nb_certs' = 0
  /\ calls' = <<>>
  /\ started' = <<>>
  /\ ended' = 0
  /\ statsd' = <<>>
  /\ UNCHANGED mode

\* main without --daemon: single_run returned or raised, the process ends
Exit ==
  /\ mode = "single"
  /\ pc \in {"returned", "raised"}
  /\ pc' = "exit"
  /\ UNCHANGED <<mode, config, rancher_certs, to_do, idx, tmp, private_key,
                 cert, err, nb_certs, calls, started, ended, statsd, slept>>

Next ==
  \/ LoadConfigUnreadable
  \/ LoadConfig
  \/ CheckCerts
  \/ ForToDo
  \/ ReturnCount
  \/ MakeCert
  \/ GenKey
  \/ GenCsr
  \/ RemoveKey
  \/ Sign
  \/ RemoveCsr
  \/ Save
  \/ ReportSuccess
  \/ ReportError
  \/ Sleep
  \/ Exit

Spec == Init /\ [][Next]_vars

\* The program is one thread that keeps running: whenever a step is
\* possible, one is eventually taken.
FairSpec == Spec /\ WF_vars(Next)


\* =================================================================== claims
InMakeCert == pc \in {"make_cert", "genrsa", "req", "rm_key", "sign", "rm_csr", "save"}

\* a renewal attempt has ended and none is in progress
AttemptEnded == Len(started) > 0 /\ ended = Len(started)

\* C1: once a renewal attempt has ended, however it ended, none of the
\* transient files it created (key, CSR, SAN config) is left in /tmp.
C1_TransientFilesRemoved == AttemptEnded => tmp = {}

\* C2: renewals run one at a time and in ascending urgency: at most one
\* attempt is in progress, and when the attempt of an item has started, every
\* queued item of strictly smaller urgency was started earlier and has ended.
C2_SequentialByUrgency ==
  /\ Len(started) - ended \in {0, 1}
  /\ (Len(started) - ended = 1) <=> InMakeCert
  /\ \A j \in DOMAIN started : \A k \in DOMAIN to_do :
       to_do[k].remaining_days < started[j].remaining_days
         => \E i \in 1..(j - 1) : started[i] = to_do[k] /\ i <= ended

C2_Witness ==
  /\ Len(started) = 2
  /\ started[1].remaining_days < started[2].remaining_days
  /\ ended = 1
  /\ pc = "save"

IsSave(c) == c.op \in {"POST", "PUT"}

\* the pass has failed and is not over yet
PassFailed == err # NoError

\* C3: once a step of the pass has failed, nothing more is attempted in that
\* pass: the failing call, if any, is the last call, no item after the current
\* one was started, and no call is made and no attempt started afterwards; the
\* store writes of the items completed before are still those that were made.
C3_ErrorAbortsPass ==
  /\ [](PassFailed =>
          /\ \A n \in DOMAIN calls : n < Len(calls) => calls[n].ok
          /\ Len(started) = idx /\ ended = idx
          /\ ~InMakeCert
          /\ \A i \in 1..(idx - 1) :
               \E n \in DOMAIN calls :
                 /\ IsSave(calls[n]) /\ calls[n].ok /\ calls[n].item = i
                 /\ calls[n].link = to_do[i].link)
  /\ [][PassFailed /\ PassFailed' => calls' = calls /\ started' = started /\ idx' = idx]_vars

C3_Witness ==
  /\ pc = "raised"
  /\ idx = 1
  /\ Len(to_do) = 2
  /\ calls # <<>> /\ ~calls[Len(calls)].ok


\* C4: in daemon mode a pass that returned or raised is followed by the
\* sleep, the sleep lasts one day and is followed by the start of another
\* pass, and so a pass is started again and again.
C4_DaemonKeepsRunning ==
  /\ [][mode = "daemon" /\ pc \in {"returned", "raised"} => pc' = "sleep"]_vars
  /\ [][pc = "sleep" => pc' = "single_run" /\ slept' = SleepSeconds]_vars
  /\ (mode = "daemon" => []<>(pc = "single_run" /\ slept = SleepSeconds))

C4_Witness == mode = "daemon" /\ pc = "sleep" /\ err.type = "IOError"

\* C5: in daemon mode, when the sleep begins exactly one outcome of the pass
\* has been reported: the success event with the count and an OK check when
\* the pass returned, the error event with the error's type and message and
\* a CRITICAL check when it raised; nothing is reported before.
C5_OneOutcomePerPass ==
  /\ pc # "sleep" => statsd = <<>>
  /\ pc = "sleep" =>
       /\ mode = "daemon"
       /\ \/ /\ err = NoError
             /\ idx = Len(to_do)
             /\ statsd = <<StatsdEvent("success", nb_certs, NoError),
                           StatsdCheck("OK")>>
          \/ /\ err # NoError
             /\ statsd = <<StatsdEvent("error", 0, err),
                           StatsdCheck("CRITICAL")>>

C5_Witness ==
  /\ pc = "sleep"
  /\ Len(statsd) = 2
  /\ statsd[1].alert_type = "error"
  /\ statsd[2].status = "CRITICAL"


\* ---- the reconciler's result, read right after check_certs has sorted to_do
Classified == pc = "for_to_do" /\ idx = 0

\* observed certificate j has the (trimmed) name of desired certificate i
Matches(j, i) == Strip(rancher_certs[j].name) = config.certs[i].name

HasObserved(i) == \E j \in DOMAIN rancher_certs : Matches(j, i)

\* the observed certificate matched to desired certificate i (the one listed
\* last, should several carry the name)
ObservedOf(i) ==
  rancher_certs[CHOOSE j \in DOMAIN rancher_certs :
                  /\ Matches(j, i)
                  /\ \A m \in DOMAIN rancher_certs : Matches(m, i) => m <= j]

Range(f) == { f[x] : x \in DOMAIN f }

\* every desired domain of i is among the observed SANs
Covering(i) ==
  Range(config.certs[i].domains) \subseteq Range(ObservedOf(i).subjectAlternativeNames)

\* the whole days from now to a timestamp, rounded down
WholeDays(secs) ==
  CHOOSE d \in (0 - 2)..(RenewBelowDays + 1) :
    d * SecondsPerDay <= secs - now /\ secs - now < (d + 1) * SecondsPerDay

\* the queue positions holding the work item of desired certificate i
ItemsOf(i) ==
  { k \in DOMAIN to_do : /\ to_do[k].name = config.certs[i].name
                         /\ to_do[k].domains = config.certs[i].domains }

\* the config entries equal to entry i
Copies(i) == { j \in DOMAIN config.certs : config.certs[j] = config.certs[i] }

\* C6: a desired certificate whose name matches no observed certificate gets
\* one work item, of urgency 0 and without update link, and the result of an
\* item without update link is saved by a POST carrying the name.
C6_AbsentIsCreated ==
  /\ Classified =>
       \A i \in DOMAIN config.certs :
         ~HasObserved(i) =>
           /\ Cardinality(ItemsOf(i)) = Cardinality(Copies(i))
           /\ \A k \in ItemsOf(i) :
                to_do[k].remaining_days = 0 /\ to_do[k].link = NoLink
  /\ \A n \in DOMAIN calls :
       IsSave(calls[n]) /\ to_do[calls[n].item].link = NoLink =>
         /\ calls[n].op = "POST"
         /\ calls[n].name = to_do[calls[n].item].name
         /\ calls[n].link = NoLink

C6_Witness ==
  /\ pc = "for_to_do"
  /\ \E n \in DOMAIN calls :
       /\ calls[n].op = "POST" /\ calls[n].ok
       /\ to_do[calls[n].item].link = NoLink
       /\ to_do[calls[n].item].remaining_days = 0

\* C7: a desired certificate whose observed certificate lacks a desired
\* domain gets one work item, of urgency 0 and with the observed
\* certificate's link, whatever the expiry, and the result of an item with a
\* link is saved by a PUT at that link.
C7_DomainGapIsUpdated ==
  /\ Classified =>
       \A i \in DOMAIN config.certs :
         HasObserved(i) /\ ~Covering(i) =>
           /\ Cardinality(ItemsOf(i)) = Cardinality(Copies(i))
           /\ \A k \in ItemsOf(i) :
                /\ to_do[k].remaining_days = 0
                /\ to_do[k].link = ObservedOf(i).link
  /\ \A n \in DOMAIN calls :
       IsSave(calls[n]) /\ to_do[calls[n].item].link # NoLink =>
         /\ calls[n].op = "PUT"
         /\ calls[n].link = to_do[calls[n].item].link
         /\ calls[n].name = <<>>

C7_Witness ==
  /\ pc = "for_to_do"
  /\ \E n \in DOMAIN calls :
       /\ calls[n].op = "PUT" /\ calls[n].ok
       /\ to_do[calls[n].item].link # NoLink
       /\ to_do[calls[n].item].remaining_days = 0

\* C8: a desired certificate has no work item exactly when an observed
\* certificate of its name exists, contains every desired domain (in any
\* order, extra SANs allowed) and has at least 30 remaining days.
C8_NoItemIffHealthy ==
  Classified =>
    \A i \in DOMAIN config.certs :
      ItemsOf(i) = {} <=>
        /\ HasObserved(i)
        /\ Covering(i)
        /\ ObservedOf(i).expiresAt.fmt = "ok"
        /\ WholeDays(ObservedOf(i).expiresAt.secs) >= RenewBelowDays

C8_Witness ==
  /\ Classified
  /\ \E i \in DOMAIN config.certs :
       /\ ItemsOf(i) = {}
       /\ Len(config.certs[i].domains) = 2
       /\ HasObserved(i)
       /\ ObservedOf(i).subjectAlternativeNames[1] # config.certs[i].domains[1]
       /\ ObservedOf(i).expiresAt.secs = RenewBelowDays * SecondsPerDay

\* the observed certificate of i has a readable expiry less than 30 whole
\* days away
ExpiresSoon(i) ==
  /\ HasObserved(i)
  /\ ObservedOf(i).expiresAt.fmt = "ok"
  /\ WholeDays(ObservedOf(i).expiresAt.secs) < RenewBelowDays

UrgencyIsRemainingDays(i) ==
  /\ ItemsOf(i) # {}
  /\ \A k \in ItemsOf(i) :
       to_do[k].remaining_days = WholeDays(ObservedOf(i).expiresAt.secs)

\* C9 as stated: every desired certificate with less than 30 remaining days
\* has a work item whose urgency is the remaining days.
C9_Original ==
  Classified =>
    \A i \in DOMAIN config.certs : ExpiresSoon(i) => UrgencyIsRemainingDays(i)

\* C9: every desired certificate whose observed certificate contains all its
\* domains and has less than 30 remaining days has a work item whose urgency
\* is the remaining days (whole days, rounded down, negative once expired).
C9_UrgencyOfCovering ==
  Classified =>
    \A i \in DOMAIN config.certs :
      ExpiresSoon(i) /\ Covering(i) => UrgencyIsRemainingDays(i)

C9_Witness ==
  /\ Classified
  /\ \E i \in DOMAIN config.certs :
       /\ ExpiresSoon(i) /\ Covering(i)
       /\ \E k \in ItemsOf(i) : to_do[k].remaining_days < 0

\* C10: a config.yml with both ca and ca_directory makes the pass fail in
\* load_config: Rancher is not called, no key is generated, nothing is signed
\* or saved.
C10_BothCaKeysRejected ==
  {"ca", "ca_directory"} \subseteq config.keys =>
    /\ pc \in {"raised", "sleep", "exit"}
    /\ err = [type |-> "Exception", msg |-> "either ca_directory or ca but not both"]
    /\ calls = <<>>
    /\ started = <<>>
    /\ to_do = <<>>
    /\ tmp = {}

C10_Witness ==
  /\ {"ca", "ca_directory"} \subseteq config.keys
  /\ Len(config.certs) > 0
  /\ pc = "raised"

\* the positions in calls of the store writes made for queue item k
SavesOf(k) == { n \in DOMAIN calls : IsSave(calls[n]) /\ calls[n].item = k }

\* C11: a pass that returns, returns the length of its queue, and has made
\* exactly one store write per queue item, each accepted; with an empty queue
\* it returns 0 and has generated no key, signed nothing and written nothing.
C11_CountIsQueueLength ==
  pc = "returned" =>
    /\ nb_certs = Len(to_do)
    /\ Cardinality({ n \in DOMAIN calls : IsSave(calls[n]) }) = nb_certs
    /\ \A k \in DOMAIN to_do :
         /\ Cardinality(SavesOf(k)) = 1
         /\ \A n \in SavesOf(k) : calls[n].ok
    /\ to_do = <<>> =>
         /\ nb_certs = 0
         /\ \A n \in DOMAIN calls : calls[n].op = "GET"

C11_Witness ==
  /\ pc = "returned"
  /\ nb_certs = 2
  /\ Cardinality({ n \in DOMAIN calls : IsSave(calls[n]) }) = 2

\* the queue is processed front to back
ProcessedInQueueOrder ==
  /\ Len(started) <= Len(to_do)
  /\ \A n \in DOMAIN started : started[n] = to_do[n]

\* desired certificates a and b are distinct entries, each declared once
DeclaredOnce(a, b) ==
  /\ Cardinality(Copies(a)) = 1
  /\ Cardinality(Copies(b)) = 1
  /\ a # b

\* C12 as stated: of two desired certificates with work items of equal
\* urgency, the one listed first in the config is processed first.
C12_Original ==
  /\ ProcessedInQueueOrder
  /\ \A a, b \in DOMAIN config.certs :
       DeclaredOnce(a, b) /\ a < b =>
         \A ka \in ItemsOf(a), kb \in ItemsOf(b) :
           to_do[ka].remaining_days = to_do[kb].remaining_days => ka < kb

\* C12: of two desired certificates with work items of equal urgency, the
\* one with the smaller name (by code point) is processed first, and of two
\* with the same name the one with the smaller domain list, wherever they
\* are listed in the config.
C12_TiesByNameThenDomains ==
  /\ ProcessedInQueueOrder
  /\ \A a, b \in DOMAIN config.certs :
       DeclaredOnce(a, b) =>
         \A ka \in ItemsOf(a), kb \in ItemsOf(b) :
           /\ to_do[ka].remaining_days = to_do[kb].remaining_days
           /\ \/ StrLess(config.certs[a].name, config.certs[b].name)
              \/ /\ config.certs[a].name = config.certs[b].name
                 /\ ListLess(config.certs[a].domains, config.certs[b].domains)
           => ka < kb

\* the certificate listed second has the smaller name and was processed first
C12_Witness ==
  /\ Len(started) = 2
  /\ ended = 2
  /\ Len(config.certs) = 2
  /\ started[1].remaining_days = started[2].remaining_days
  /\ started[1].name = config.certs[2].name
  /\ started[2].name = config.certs[1].name
  /\ StrLess(config.certs[2].name, config.certs[1].name)

\* desired certificate i is queued with urgency 0: absent or missing domains
AbsentOrGap(i) == ~HasObserved(i) \/ ~Covering(i)

\* desired certificate i is queued only because of its expiry
QueuedForExpiry(i) == HasObserved(i) /\ Covering(i) /\ ItemsOf(i) # {}

\* C13 as stated: every work item of an absent or domain-gap certificate is
\* in the queue, and so processed, before every work item of a covering
\* certificate queued for its expiry.
C13_Original ==
  /\ ProcessedInQueueOrder
  /\ Classified =>
       \A i, j \in DOMAIN config.certs :
         AbsentOrGap(i) /\ QueuedForExpiry(j) =>
           \A ki \in ItemsOf(i), kj \in ItemsOf(j) : ki < kj

\* C13: a work item of an absent or domain-gap certificate (urgency 0) is
\* processed before every work item of a covering certificate with one or
\* more remaining days, and after every work item of a covering certificate
\* that has already expired (negative remaining days).
C13_ZeroBetweenExpiredAndExpiring ==
  /\ ProcessedInQueueOrder
  /\ Classified =>
       \A i, j \in DOMAIN config.certs :
         AbsentOrGap(i) /\ QueuedForExpiry(j) =>
           \A ki \in ItemsOf(i), kj \in ItemsOf(j) :
             /\ to_do[ki].remaining_days = 0
             /\ to_do[kj].remaining_days > 0 => ki < kj
             /\ to_do[kj].remaining_days < 0 => kj < ki

\* an expired covering certificate is queued ahead of an absent or domain-gap
\* one
C13_Witness ==
  /\ Classified
  /\ Len(to_do) = 2
  /\ to_do[1].remaining_days < 0
  /\ \E i, j \in DOMAIN config.certs :
       /\ AbsentOrGap(i) /\ QueuedForExpiry(j)
       /\ 1 \in ItemsOf(j) /\ 2 \in ItemsOf(i)

\* the calls made for queue item k by operation op that had result ok
CallsOf(k, op, ok) ==
  { n \in DOMAIN calls : calls[n].item = k /\ calls[n].op = op /\ calls[n].ok = ok }

\* C14: a create or update request is sent for an item only after key
\* generation, CSR generation and signing have succeeded for that item, never
\* once one of them has failed for it, and it carries the certificate that
\* signing returned and the private key generated in that same attempt.
C14_SaveOnlyAfterSigning ==
  \A n \in DOMAIN calls :
    IsSave(calls[n]) =>
      LET k == calls[n].item
      IN /\ \E m \in CallsOf(k, "get_crt", TRUE) : m < n
         /\ \E m \in CallsOf(k, "genrsa", TRUE) : m < n
         /\ \E m \in CallsOf(k, "req", TRUE) : m < n
         /\ CallsOf(k, "get_crt", FALSE) = {}
         /\ CallsOf(k, "genrsa", FALSE) = {}
         /\ CallsOf(k, "req", FALSE) = {}
         /\ calls[n].cert = k
         /\ calls[n].key = k

\* the second item of a pass is saved with its own key and certificate
C14_Witness ==
  \E n \in DOMAIN calls :
    /\ IsSave(calls[n]) /\ calls[n].ok
    /\ calls[n].item = 2 /\ calls[n].key = 2 /\ calls[n].cert = 2

NoDomains == [type |-> "Exception", msg |-> "No domains for certificate"]

\* C15: make_cert called for an item without domains raises at once: no call
\* of openssl, acme_tiny or Rancher is made for that item, no transient file
\* exists, and the pass ends with that error, the items behind it untouched.
C15_NoDomainsRejected ==
  \A k \in DOMAIN started :
    started[k].domains = <<>> =>
      /\ \A n \in DOMAIN calls : calls[n].item # k
      /\ tmp = {}
      /\ k = Len(started) /\ idx = k
      /\ \/ pc = "make_cert" /\ ended = k - 1 /\ err = NoError
         \/ pc \in {"raised", "sleep", "exit"} /\ ended = k /\ err = NoDomains

\* the item without domains was first in the queue, another one is behind it
C15_Witness ==
  /\ pc = "raised"
  /\ err = NoDomains
  /\ idx = 1
  /\ Len(to_do) = 2
  /\ to_do[2].domains # <<>>

\* the observed certificate matched to desired certificate i has an expiresAt
\* that strptime rejects
UnparsedExpiry(i) == HasObserved(i) /\ ObservedOf(i).expiresAt.fmt # "ok"

\* the pass has failed on the expiry, having done nothing but list the store
FailedOnExpiry ==
  /\ pc \in {"raised", "sleep", "exit"}
  /\ err.type = "ValueError"
  /\ to_do = <<>>
  /\ started = <<>>
  /\ \A n \in DOMAIN calls : calls[n].op = "GET"

\* C16 as stated: when the observed certificate matched to a desired
\* certificate has an unparseable expiresAt, the pass fails and nothing is
\* issued or saved.
C16_Original ==
  \A i \in DOMAIN config.certs : UnparsedExpiry(i) => FailedOnExpiry

\* C16: when the observed certificate matched to a desired certificate
\* contains all its desired domains and has an unparseable expiresAt, the
\* pass fails and nothing is issued or saved.
C16_UnparsedCoveringFailsPass ==
  \A i \in DOMAIN config.certs :
    UnparsedExpiry(i) /\ Covering(i) => FailedOnExpiry

\* the pass failed on the expiry of one certificate while another one was
\* declared
C16_Witness ==
  /\ pc = "raised"
  /\ Len(config.certs) = 2
  /\ \E i \in DOMAIN config.certs : UnparsedExpiry(i) /\ Covering(i)
  /\ \E i \in DOMAIN config.certs : ~HasObserved(i)

\* the last call made in this pass is a store write
LastCallIsSave == calls # <<>> /\ IsSave(calls[Len(calls)])

\* C17: when acme_tiny.get_crt is about to be called, the CSR file is the
\* only transient file of the attempt that exists (the private key file and
\* the SAN config file are gone); when the store write is about to be made,
\* and after it was made or has failed, no transient file exists.
C17_OnlyCsrDuringSigning ==
  /\ pc = "sign" => tmp = {"csr_file"}
  /\ pc = "save" => tmp = {}
  /\ LastCallIsSave => tmp = {}

\* the store write of an item with two domains, whose CSR needed the SAN
\* config file, has failed
C17_Witness ==
  /\ pc = "raised"
  /\ LastCallIsSave
  /\ ~calls[Len(calls)].ok
  /\ Len(to_do[idx].domains) = 2
  /\ tmp = {}

\* the positions in calls of GET /certificates
ListCalls == { n \in DOMAIN calls : calls[n].op = "GET" }

\* the pass failed while listing the store or classifying
FailedBeforeQueue ==
  \/ calls # <<>> /\ ~calls[1].ok
  \/ err = [type |-> "ValueError", msg |-> "time data does not match format"]

\* check_certs has the queue and is in, or past, its for loop
QueueBuilt == pc = "for_to_do" \/ InMakeCert \/ pc = "returned"

\* C18: the store is listed once per pass, before any other call; the queue
\* is complete when the first renewal attempt starts and is processed as it
\* is; a pass that fails while listing or classifying has generated no key,
\* signed nothing and written nothing; and once built the queue does not
\* change for the rest of the pass.
C18_ListedOnceQueueFixed ==
  /\ [](/\ Cardinality(ListCalls) <= 1
        /\ calls # <<>> => calls[1].op = "GET"
        /\ QueueBuilt => ListCalls = {1} /\ calls[1].ok
        /\ ProcessedInQueueOrder
        /\ FailedBeforeQueue =>
             /\ Len(calls) = 1
             /\ started = <<>>
             /\ to_do = <<>>)
  /\ [][QueueBuilt => to_do' = to_do]_vars

\* between the store write of the first item and the attempt of the second
C18_Witness ==
  /\ pc = "for_to_do"
  /\ idx = 1
  /\ Len(to_do) = 2
  /\ LastCallIsSave
  /\ calls[Len(calls)].ok

====
